---------------------------- MODULE Spec2Model ----------------------------
(***************************************************************************)
(* Model of video_editor: the face-orientation heuristic of                *)
(* face_search.py (rotation hypothesis generator, frame face locator,      *)
(* clip orientation estimator) and the initialization guard of the Editor  *)
(* class (editor.py, utils.require_initialized).                           *)
(*                                                                         *)
(* Python's None is the empty tuple <<>>.  A face region is <<x, y, w, h>>. *)
(* A decoded frame is what the cascade detector answers on it at each of   *)
(* the four rotations: a function from the rotation to a sequence of face  *)
(* regions.                                                                *)
(***************************************************************************)
EXTENDS Integers, Sequences, FiniteSets, TLC

VARIABLES
    clip,            \* the video: the sequence of its decodable frames
    metadata,        \* get_video_metadata(path): [width, height, fps]
    faces,           \* faces: rotation -> list of (x, y) observations
    rotation,        \* rotation (local of get_average_faces_position_in_clip)
    frames_counter,  \* frames_counter
    pos,             \* read position of capture (CAP_PROP_POS_FRAMES)
    image,           \* the frame returned by the last capture.read()
    gen,             \* the rotation generator handed down the recursion
    found,           \* average_faces_position_in_frame
    tried,           \* history: angles passed to the detector for this frame
    sampled,         \* history: frame indices returned by capture.read()
    result,          \* the returned (bucketX, bucketY, rotation), or None
    error,           \* the exception that ended the call, "" when none
    pc,              \* position in get_average_faces_position_in_clip
    e_clip,          \* Editor.__clip
    e_path,          \* Editor.video_file_path
    e_op,            \* history: the last Editor method called
    e_out,           \* history: how that call ended
    e_args,          \* history: <<time>> of the last insert_* call, else <<>>
    e_loaded         \* history: some load_video call has returned normally

fvars == <<clip, metadata, faces, rotation, frames_counter, pos, image, gen,
           found, tried, sampled, result, error, pc>>
evars == <<e_clip, e_path, e_op, e_out, e_args, e_loaded>>
vars == <<fvars, evars>>

None == <<>>

\* ------------------------------------------------------------- bounds
MaxFrames == 4
MaxCounter == 6

\* ------------------------------------------------------------- inputs
Rotations == {0, 90, 180, 270}

FpsValues == {0, 1, 2}

Sizes == {<<300, 300>>, <<1920, 1080>>}

FaceA == <<10, 20, 30, 40>>
FaceE == <<11, 20, 30, 42>>
FaceC == <<350, 350, 100, 100>>
FaceD == <<900, 1400, 200, 200>>

Detections(at0, at90, at180, at270) ==
    [r \in Rotations |-> CASE r = 0 -> at0
                           [] r = 90 -> at90
                           [] r = 180 -> at180
                           [] r = 270 -> at270]

Frames ==
    { Detections(<<>>, <<>>, <<>>, <<>>),
      Detections(<<FaceA>>, <<>>, <<>>, <<>>),
      Detections(<<>>, <<FaceD>>, <<>>, <<>>),
      Detections(<<>>, <<>>, <<FaceA, FaceE>>, <<>>),
      Detections(<<>>, <<>>, <<>>, <<FaceC>>),
      Detections(<<FaceC>>, <<>>, <<FaceA>>, <<>>) }

Clips == UNION { [1..n -> Frames] : n \in 0..MaxFrames }

\* ------------------------------------------------- numeric helpers
\* Python round() of the non-negative quotient num / den: to nearest, ties
\* to the even integer.
RoundHalfEven(num, den) ==
    LET q == num \div den
        r == num % den
    IN  IF 2 * r < den THEN q
        ELSE IF 2 * r > den THEN q + 1
        ELSE IF q % 2 = 0 THEN q ELSE q + 1

\* list.index(x), 0-based
RECURSIVE IndexOf(_, _)
IndexOf(list, x) ==
    IF Head(list) = x THEN 0 ELSE 1 + IndexOf(Tail(list), x)

\* for j in range(0, n): rotates.append(rotates.pop(0))
RECURSIVE PopAppend(_, _)
PopAppend(list, n) ==
    IF n = 0 THEN list ELSE PopAppend(Append(Tail(list), Head(list)), n - 1)

\* ------------------------------------------- __rotation_generator
BaseOrder == <<0, 90, 270, 180>>

\* mutant: the base ordering taken as 0, 90, 180, 270
MutRotationGenerator(current_rotate) ==
    [rotates |-> PopAppend(<<0, 90, 180, 270>>,
                           IndexOf(<<0, 90, 180, 270>>, current_rotate)),
     i |-> 0]

\* The list the generator iterates, and the number of angles yielded so far.
RotationGenerator(current_rotate) ==
    [rotates |-> PopAppend(BaseOrder, IndexOf(BaseOrder, current_rotate)),
     i |-> 0]

\* mutant: the yield loop stops one short, for i in range(len(rotates) - 1)
MutGenExhausted(g) == g.i >= Len(g.rotates) - 1

GenExhausted(g) == g.i >= Len(g.rotates)
GenNext(g) == g.rotates[g.i + 1]
GenAdvance(g) == [g EXCEPT !.i = g.i + 1]

\* ---------------------------- get_average_face_position_in_image
\* mutant: the centre taken as x + w, y + h
RECURSIVE MutSumCentres2(_, _)
MutSumCentres2(faces_in_frame, k) ==
    IF faces_in_frame = <<>> THEN 0
    ELSE 2 * Head(faces_in_frame)[k] + 2 * Head(faces_in_frame)[k + 2]
         + MutSumCentres2(Tail(faces_in_frame), k)

\* Twice the sum over the detected faces of x + w/2 (k = 1) or y + h/2
\* (k = 2): the accumulation of lines 131-137, kept in halves.
RECURSIVE SumCentres2(_, _)
SumCentres2(faces_in_frame, k) ==
    IF faces_in_frame = <<>> THEN 0
    ELSE 2 * Head(faces_in_frame)[k] + Head(faces_in_frame)[k + 2]
         + SumCentres2(Tail(faces_in_frame), k)

AveragePosition(faces_in_frame, current_rotation) ==
    <<RoundHalfEven(SumCentres2(faces_in_frame, 1), 2 * Len(faces_in_frame)),
      RoundHalfEven(SumCentres2(faces_in_frame, 2), 2 * Len(faces_in_frame)),
      current_rotation>>

\* mutant: the rotation constants of 90 and 270 exchanged
MutDetect(img, current_rotation) == img[(360 - current_rotation) % 360]

\* detectMultiScale on the frame rotated by current_rotation
Detect(img, current_rotation) == img[current_rotation]

\* ------------------------------ get_average_faces_position_in_clip
Init ==
    /\ clip \in Clips
    /\ \E s \in Sizes, f \in FpsValues :
          metadata = [width |-> s[1], height |-> s[2], fps |-> f]
    /\ faces = [r \in Rotations |-> <<>>]
    /\ rotation = 0
    /\ frames_counter = 1
    /\ pos = 0
    /\ image = None
    /\ gen = None
    /\ found = None
    /\ tried = <<>>
    /\ sampled = <<>>
    /\ result = None
    /\ error = ""
    /\ pc = "read"
    /\ e_clip = None
    /\ e_path = None
    /\ e_op = "init"
    /\ e_out = "ok"
    /\ e_args = <<>>
    /\ e_loaded = FALSE

\* capture.read() fails: break
ReadFail ==
    /\ pc = "read"
    /\ pos >= Len(clip)
    /\ pc' = "aggregate"
    /\ UNCHANGED <<clip, metadata, faces, rotation, frames_counter, pos, image,
                   gen, found, tried, sampled, result, error>>
    /\ UNCHANGED evars

\* capture.read() returns a frame; the locator is called with the integer
\* rotation and builds its generator
ReadFrame ==
    /\ pc = "read"
    /\ pos < Len(clip)
    /\ frames_counter < MaxCounter
    /\ image' = clip[pos + 1]
    /\ pos' = pos + 1
    /\ sampled' = Append(sampled, pos)
    /\ gen' = RotationGenerator(rotation)
    /\ tried' = <<>>
    /\ found' = None
    /\ pc' = "locate"
    /\ UNCHANGED <<clip, metadata, faces, rotation, frames_counter, result, error>>
    /\ UNCHANGED evars

\* next(rotation) raises StopIteration: return None
LocateExhausted ==
    /\ pc = "locate"
    /\ GenExhausted(gen)
    /\ found' = None
    /\ pc' = "returned"
    /\ UNCHANGED <<clip, metadata, faces, rotation, frames_counter, pos, image,
                   gen, tried, sampled, result, error>>
    /\ UNCHANGED evars

\* the detector finds no face at the next angle: recurse with the generator
LocateMiss ==
    /\ pc = "locate"
    /\ ~GenExhausted(gen)
    /\ Len(Detect(image, GenNext(gen))) = 0
    /\ tried' = Append(tried, GenNext(gen))
    /\ gen' = GenAdvance(gen)
    /\ UNCHANGED <<clip, metadata, faces, rotation, frames_counter, pos, image,
                   found, sampled, result, error, pc>>
    /\ UNCHANGED evars

\* the detector finds faces at the next angle: return their average position
LocateHit ==
    /\ pc = "locate"
    /\ ~GenExhausted(gen)
    /\ Len(Detect(image, GenNext(gen))) # 0
    /\ tried' = Append(tried, GenNext(gen))
    /\ gen' = GenAdvance(gen)
    /\ found' = AveragePosition(Detect(image, GenNext(gen)), GenNext(gen))
    /\ pc' = "returned"
    /\ UNCHANGED <<clip, metadata, faces, rotation, frames_counter, pos, image,
                   sampled, result, error>>
    /\ UNCHANGED evars

\* mutant: len(faces[rotation]) > 3
MutConfident(observations) == Len(observations) > 3

\* len(faces[rotation]) > 2
Confident(observations) == Len(observations) > 2

\* mutant: the seek made before frames_counter is incremented
MutSeekTarget(fps, counter) == fps * (counter - 1)

\* mutant: the seek made to metadata.fps, without the counter
MutSeekOneSecond(fps, counter) == fps

\* capture.set(cv2.CAP_PROP_POS_FRAMES, metadata.fps * frames_counter)
SeekTarget(fps, counter) == fps * counter

\* mutant: the observation is recorded but its rotation is not carried to the
\* next frame's search
MutLoopTail ==
    /\ pc = "returned"
    /\ IF found # None
       THEN faces' = [faces EXCEPT ![found[3]] = Append(@, <<found[1], found[2]>>)]
       ELSE UNCHANGED faces
    /\ UNCHANGED rotation
    /\ IF found # None /\ Confident(faces'[found[3]])
       THEN /\ pc' = "aggregate"
            /\ UNCHANGED <<frames_counter, pos>>
       ELSE /\ frames_counter' = frames_counter + 1
            /\ pos' = SeekTarget(metadata.fps, frames_counter')
            /\ pc' = "read"
    /\ UNCHANGED <<clip, metadata, image, gen, found, tried, sampled, result, error>>
    /\ UNCHANGED evars

\* lines 61-67: record the observation, stop on confidence, else seek on
LoopTail ==
    /\ pc = "returned"
    /\ IF found # None
       THEN /\ rotation' = found[3]
            /\ faces' = [faces EXCEPT ![found[3]] = Append(@, <<found[1], found[2]>>)]
       ELSE UNCHANGED <<rotation, faces>>
    /\ IF found # None /\ Confident(faces'[found[3]])
       THEN /\ pc' = "aggregate"
            /\ UNCHANGED <<frames_counter, pos>>
       ELSE /\ frames_counter' = frames_counter + 1
            /\ pos' = SeekTarget(metadata.fps, frames_counter')
            /\ pc' = "read"
    /\ UNCHANGED <<clip, metadata, image, gen, found, tried, sampled, result, error>>
    /\ UNCHANGED evars

\* lines 68-73: for key, faces_in_group in faces.items(), in the dict's
\* insertion order 0, 90, 180, 270, keeping the first strictly larger group
FacesKeys == <<0, 90, 180, 270>>

\* mutant: >= in place of >, so that the last largest group wins
RECURSIVE MutPickRotation(_, _, _, _)
MutPickRotation(fs, keys, max_faces_in_group, rot) ==
    IF keys = <<>> THEN rot
    ELSE IF Len(fs[Head(keys)]) >= max_faces_in_group
         THEN MutPickRotation(fs, Tail(keys), Len(fs[Head(keys)]), Head(keys))
         ELSE MutPickRotation(fs, Tail(keys), max_faces_in_group, rot)

RECURSIVE PickRotation(_, _, _, _)
PickRotation(fs, keys, max_faces_in_group, rot) ==
    IF keys = <<>> THEN rot
    ELSE IF Len(fs[Head(keys)]) > max_faces_in_group
         THEN PickRotation(fs, Tail(keys), Len(fs[Head(keys)]), Head(keys))
         ELSE PickRotation(fs, Tail(keys), max_faces_in_group, rot)

\* mutant: width and height never swapped
MutClipSize(rot, md) == <<md.width, md.height>>

\* lines 74-79: rotation / 90 % 2 == 1 swaps width and height
ClipSize(rot, md) ==
    IF (rot \div 90) % 2 = 1
    THEN <<md.height, md.width>>
    ELSE <<md.width, md.height>>

\* lines 80-81: (w / 3, w * 2 / 3, w), kept multiplied by 3 so that the
\* comparison face <= line stays in the integers
Lines3(w) == <<w, w * 2, w * 3>>

\* lines 89-92: x = 0, then the first i with face <= lines[i] gives i + 1
RECURSIVE Bucket(_, _, _)
Bucket(v, lines3, i) ==
    IF i >= Len(lines3) THEN 0
    ELSE IF 3 * v <= lines3[i + 1] THEN i + 1
    ELSE Bucket(v, lines3, i + 1)

\* lines 85-99: average_x += x (k = 1), average_y += y (k = 2)
RECURSIVE SumBuckets(_, _, _)
SumBuckets(observations, lines3, k) ==
    IF observations = <<>> THEN 0
    ELSE Bucket(Head(observations)[k], lines3, 0)
         + SumBuckets(Tail(observations), lines3, k)

\* line 100
AverageBuckets(observations, size, rot) ==
    <<RoundHalfEven(SumBuckets(observations, Lines3(size[1]), 1), Len(observations)),
      RoundHalfEven(SumBuckets(observations, Lines3(size[2]), 2), Len(observations)),
      rot>>

\* lines 68-100: pick the rotation, bucket its observations, return
Aggregate ==
    /\ pc = "aggregate"
    /\ rotation' = PickRotation(faces, FacesKeys, 0, rotation)
    /\ IF Len(faces[rotation']) = 0
       THEN /\ error' = "ZeroDivisionError"
            /\ result' = None
       ELSE /\ error' = ""
            /\ result' = AverageBuckets(faces[rotation'],
                                        ClipSize(rotation', metadata), rotation')
    /\ pc' = "done"
    /\ UNCHANGED <<clip, metadata, faces, frames_counter, pos, image, gen,
                   found, tried, sampled>>
    /\ UNCHANGED evars

Next ==
    \/ ReadFail
    \/ ReadFrame
    \/ LocateExhausted
    \/ LocateMiss
    \/ LocateHit
    \/ LoopTail
    \/ Aggregate

Spec == Init /\ [][Next]_vars

\* The call is one sequential thread that is never suspended: whenever a
\* step is possible it is eventually taken.
SpecLive == Spec /\ WF_vars(Next)

\* ================================================== class Editor
\* A clip is <<secs, w, h>>: the sequence of its seconds, each named after
\* the file it was decoded from, and its frame size.  Times are whole seconds.
MaxDuration == 3

Duration(c) == Len(c[1])

\* the files load_video and insert_video are given: VideoFileClip opens the
\* first three; MediaInfo finds no Video track in the third
VideoFiles == {"a.mp4", "p.mov", "g.gif", "missing.mp4"}

VideoFileClip(f) ==
    CASE f = "a.mp4" -> << <<"a1", "a2">>, 640, 480 >>
      [] f = "p.mov" -> << <<"p1">>, 1920, 1080 >>
      [] f = "g.gif" -> << <<"g1">>, 100, 100 >>
      [] OTHER -> None

\* utils.get_video_metadata: <<width, height, rotation>>, None when the
\* file has no Video track
GetVideoMetadata(f) ==
    CASE f = "a.mp4" -> <<640, 480, 0>>
      [] f = "p.mov" -> <<1920, 1080, 90>>
      [] OTHER -> None

ImageFiles == {"i.png"}

ImageClip(f, duration) == << [j \in 1..duration |-> "i"], 100, 100 >>

\* an Optional[int] argument: None, or Some(t) for the integer t
Some(t) == <<t>>
Value(opt) == opt[1]

Resized(c, w, h) == <<c[1], w, h>>

\* moviepy subclipped(start_time, end_time): None stands for its ValueError
\* (start at or after the end of the clip, end beyond it)
Subclipped(c, start_time, end_time) ==
    LET e == IF end_time = None THEN Duration(c) ELSE Value(end_time)
    IN  IF start_time >= Duration(c) \/ e > Duration(c) \/ e < start_time
        THEN None
        ELSE <<SubSeq(c[1], start_time + 1, e), c[2], c[3]>>

\* moviepy rotated(angle): a quarter turn exchanges width and height
Rotated(c, angle) ==
    IF (angle \div 90) % 2 = 1 THEN <<c[1], c[3], c[2]>> ELSE c

Max(a, b) == IF a >= b THEN a ELSE b

\* concatenate_videoclips of two clips: "compose" takes the largest width
\* and height, "chain" keeps the first clip's size
Concatenate(c1, c2, method) ==
    IF method = "compose"
    THEN <<c1[1] \o c2[1], Max(c1[2], c2[2]), Max(c1[3], c2[3])>>
    ELSE <<c1[1] \o c2[1], c1[2], c1[3]>>

\* mutant: the attribute looked up under its unmangled name "__clip", which
\* the instance never has
MutRequireInitialized(attr) == FALSE

\* utils.require_initialized("__clip"): the wrapped method runs only when
\* the attribute, resolved as _Editor__clip, is not None
RequireInitialized(attr) == attr # None

\* the wrapper raises RuntimeError and the method does not run
RaiseNotInitialized(op) ==
    /\ ~RequireInitialized(e_clip)
    /\ e_op' = op
    /\ e_out' = "RuntimeError"
    /\ UNCHANGED <<e_clip, e_path, e_loaded>>

Ends(op, out, c) ==
    /\ e_op' = op
    /\ e_out' = out
    /\ e_clip' = c
    /\ UNCHANGED <<e_path, e_loaded>>

\* Editor.load_video (with __normalize_video_size, lines 196-210)
LoadVideo ==
    /\ \E f \in VideoFiles :
          /\ e_op' = "load_video"
          /\ e_args' = <<>>
          /\ IF VideoFileClip(f) = None
             THEN \* VideoFileClip raises: nothing is assigned
                  /\ e_out' = "OSError"
                  /\ UNCHANGED <<e_clip, e_path, e_loaded>>
             ELSE /\ e_path' = f
                  /\ IF GetVideoMetadata(f) = None
                     THEN \* __clip is assigned, then ValueError
                          /\ e_clip' = VideoFileClip(f)
                          /\ e_out' = "ValueError"
                          /\ UNCHANGED e_loaded
                     ELSE LET md == GetVideoMetadata(f)
                          IN  /\ e_clip' = IF md[3] = 90 \/ md[3] = 270
                                           THEN Resized(VideoFileClip(f), md[2], md[1])
                                           ELSE Resized(VideoFileClip(f), md[1], md[2])
                              /\ e_out' = "ok"
                              /\ e_loaded' = TRUE
    /\ UNCHANGED fvars

\* Editor.get_clip
GetClip ==
    /\ e_args' = <<>>
    /\ \/ RaiseNotInitialized("get_clip")
       \/ /\ RequireInitialized(e_clip)
          /\ Ends("get_clip", "ok", e_clip)
    /\ UNCHANGED fvars

\* Editor.write_video
WriteVideo ==
    /\ e_args' = <<>>
    /\ \/ RaiseNotInitialized("write_video")
       \/ /\ RequireInitialized(e_clip)
          /\ Ends("write_video", "ok", e_clip)
    /\ UNCHANGED fvars

Times == {None, Some(-1), Some(0), Some(1), Some(MaxDuration)}

\* Editor.cut
Cut ==
    /\ e_args' = <<>>
    /\ \/ RaiseNotInitialized("cut")
       \/ /\ RequireInitialized(e_clip)
          /\ \E start_time \in -1..MaxDuration,
                end_time \in {None} \cup {Some(t) : t \in 0..MaxDuration} :
                IF start_time < 0 \/ (end_time # None /\ Value(end_time) < start_time)
                THEN Ends("cut", "ValueError", e_clip)
                ELSE IF Subclipped(e_clip, start_time, end_time) = None
                     THEN Ends("cut", "ValueError", e_clip)
                     ELSE Ends("cut", "ok", Subclipped(e_clip, start_time, end_time))
    /\ UNCHANGED fvars

\* Editor.rotate
Rotate ==
    /\ e_args' = <<>>
    /\ \/ RaiseNotInitialized("rotate")
       \/ /\ RequireInitialized(e_clip)
          /\ \E angle \in {0, 45, 90, 180, 270} :
                IF angle \notin {0, 90, 180, 270}
                THEN Ends("rotate", "ValueError", e_clip)
                ELSE Ends("rotate", "ok", Rotated(e_clip, angle))
    /\ UNCHANGED fvars

\* the body of Editor.insert_clip, lines 172-182, on a set __clip: the
\* outcome and the new __clip.  time < 0 on None raises TypeError.
InsertClipBody(self_clip, c, time, method) ==
    IF time = None THEN <<"TypeError", self_clip>>
    ELSE LET t == IF Value(time) < 0
                   THEN Duration(self_clip) + Value(time)
                   ELSE Value(time)
         IN  IF t = 0
             THEN <<"ok", Concatenate(c, self_clip, method)>>
             ELSE IF t >= Duration(self_clip)
                  THEN <<"ok", Concatenate(self_clip, c, method)>>
                  ELSE <<"ok", Concatenate(
                                  Concatenate(Subclipped(self_clip, 0, Some(t)), c, method),
                                  Subclipped(self_clip, t, None), method)>>

Methods == {"compose", "chain"}

\* the clips the bounded model lets a caller insert at time: the result
\* stays within MaxDuration, and a negative time stays inside the clip
Insertable(c, time) ==
    /\ Duration(e_clip) + Duration(c) <= MaxDuration
    /\ time # None => Duration(e_clip) + Value(time) >= 0

\* the clips a caller hands to insert_clip
InsertedClips == {ImageClip("i.png", 1)}

\* Editor.insert_clip
InsertClip ==
    /\ \E time \in Times :
          /\ e_args' = <<time>>
          /\ \/ RaiseNotInitialized("insert_clip")
             \/ /\ RequireInitialized(e_clip)
                /\ \E c \in InsertedClips, method \in Methods :
                      /\ Insertable(c, time)
                      /\ Ends("insert_clip",
                              InsertClipBody(e_clip, c, time, method)[1],
                              InsertClipBody(e_clip, c, time, method)[2])
    /\ UNCHANGED fvars

\* Editor.insert_img
InsertImg ==
    /\ \E time \in Times :
          /\ e_args' = <<time>>
          /\ \/ RaiseNotInitialized("insert_img")
             \/ /\ RequireInitialized(e_clip)
                /\ \E img_path \in ImageFiles, duration \in 1..2,
                      resize_img \in BOOLEAN, method \in {"compose"} :
                      LET raw == ImageClip(img_path, duration)
                          img_clip ==
                              IF resize_img /\ (raw[2] # e_clip[2] \/ raw[3] # e_clip[3])
                              THEN Resized(raw, e_clip[2], e_clip[3])
                              ELSE raw
                      IN  /\ Insertable(img_clip, time)
                          /\ Ends("insert_img",
                                  InsertClipBody(e_clip, img_clip, time, method)[1],
                                  InsertClipBody(e_clip, img_clip, time, method)[2])
    /\ UNCHANGED fvars

\* Editor.insert_video
InsertVideo ==
    /\ \E time \in Times :
       /\ e_args' = <<time>>
       /\ \/ RaiseNotInitialized("insert_video")
          \/ /\ RequireInitialized(e_clip)
             /\ \E video_path \in {"a.mp4"},
                cut_start_time \in -1..1, cut_end_time \in {None, Some(0), Some(1)},
                resize_video \in {TRUE}, method \in {"compose"} :
                LET raw == VideoFileClip(video_path)
                    sized == IF resize_video /\ (raw[2] # e_clip[2] \/ raw[3] # e_clip[3])
                             THEN Resized(raw, e_clip[2], e_clip[3])
                             ELSE raw
                    video_clip == IF cut_start_time > 0 \/ cut_end_time # None
                                  THEN Subclipped(sized, cut_start_time, cut_end_time)
                                  ELSE sized
                IN  IF cut_start_time < 0
                       \/ (cut_end_time # None /\ Value(cut_end_time) < cut_start_time)
                    THEN Ends("insert_video", "ValueError", e_clip)
                    ELSE IF video_clip = None
                         THEN Ends("insert_video", "ValueError", e_clip)
                         ELSE /\ Insertable(video_clip, time)
                              /\ Ends("insert_video",
                                      InsertClipBody(e_clip, video_clip, time, method)[1],
                                      InsertClipBody(e_clip, video_clip, time, method)[2])
    /\ UNCHANGED fvars

NextEditor ==
    \/ LoadVideo
    \/ GetClip
    \/ WriteVideo
    \/ Cut
    \/ Rotate
    \/ InsertClip
    \/ InsertImg
    \/ InsertVideo

\* the Editor after __init__: the face-search variables play no part
InitEditor ==
    /\ clip = <<>>
    /\ metadata = [width |-> 300, height |-> 300, fps |-> 1]
    /\ faces = [r \in Rotations |-> <<>>]
    /\ rotation = 0
    /\ frames_counter = 1
    /\ pos = 0
    /\ image = None
    /\ gen = None
    /\ found = None
    /\ tried = <<>>
    /\ sampled = <<>>
    /\ result = None
    /\ error = ""
    /\ pc = "idle"
    /\ e_clip = None
    /\ e_path = None
    /\ e_op = "init"
    /\ e_out = "ok"
    /\ e_args = <<>>
    /\ e_loaded = FALSE

SpecEditor == InitEditor /\ [][NextEditor]_vars

\* ===================================================== properties
\* The base ordering rotated cyclically so that r0 comes first, written
\* without the generator's pop/append loop.
IsCyclicShiftFrom(list, r0) ==
    /\ Len(list) = 4
    /\ list[1] = r0
    /\ \E k \in 0..3 : \A j \in 1..4 : list[j] = BaseOrder[((j - 1 + k) % 4) + 1]

\* C1: for every starting angle r0 the generator yields the base ordering
\* [0, 90, 270, 180] rotated cyclically so that r0 is first: four angles,
\* pairwise distinct, covering {0, 90, 180, 270}, yielded in that order, and
\* the sequence is exhausted after the fourth.
C1_GeneratorOrder ==
    pc \in {"locate", "returned"} =>
        /\ IsCyclicShiftFrom(gen.rotates, rotation)
        /\ \A a, b \in 1..4 : a # b => gen.rotates[a] # gen.rotates[b]
        /\ {gen.rotates[j] : j \in 1..4} = Rotations
        /\ gen.i <= 4
        /\ tried = SubSeq(gen.rotates, 1, gen.i)
        /\ (pc = "returned" /\ found = None) => gen.i = 4

C1_Witness ==
    /\ pc = "returned"
    /\ found = None
    /\ rotation = 270
    /\ tried = <<270, 180, 0, 90>>

\* C2: the locator returns None if and only if the detector reports zero
\* faces at each of the four rotations of the frame.
C2_NoneIffNoFaceAnywhere ==
    pc = "returned" =>
        ((found = None) <=> (\A r \in Rotations : Len(image[r]) = 0))

C2_Witness ==
    /\ pc = "returned"
    /\ found = None
    /\ Len(tried) = 4
    /\ rotation = 90

\* C3: when some rotation of the frame has a face, the rotation returned is
\* the first angle of the hypothesis sequence at which the detector reports
\* a face; every earlier angle of the sequence was tried and reported none,
\* and no later angle is passed to the detector.
C3_FirstHitInOrder ==
    (pc = "returned" /\ found # None) =>
        LET order == RotationGenerator(rotation).rotates
            k == Len(tried)
        IN  /\ k \in 1..4
            /\ tried = SubSeq(order, 1, k)
            /\ found[3] = order[k]
            /\ Len(image[order[k]]) >= 1
            /\ \A j \in 1..(k - 1) : Len(image[order[j]]) = 0

C3_Witness ==
    /\ pc = "returned"
    /\ found # None
    /\ rotation = 90
    /\ tried = <<90, 270, 180>>
    /\ Len(image[0]) >= 1

\* C4: no rotation's observation list ever holds more than 3 observations,
\* and once a list holds 3 the sampling loop is over (no frame is read).
C4_AtMostThree ==
    /\ \A r \in Rotations : Len(faces[r]) <= 3
    /\ (\E r \in Rotations : Len(faces[r]) >= 3) => pc \in {"aggregate", "done"}

C4_Witness ==
    /\ pc = "aggregate"
    /\ \E r \in Rotations : Len(faces[r]) = 3
    /\ Len(sampled) = 3
    /\ pos < Len(clip)

\* C5: the rotation returned has a longest observation list, and among the
\* angles with a longest list it is the first in the order 0, 90, 180, 270.
C5_MajorityRotation ==
    (pc = "done" /\ result # None) =>
        /\ result[3] \in Rotations
        /\ \A r \in Rotations : Len(faces[r]) <= Len(faces[result[3]])
        /\ \A r \in Rotations :
              r < result[3] => Len(faces[r]) < Len(faces[result[3]])

\* a tie in which the most recent detection is not the rotation returned
C5_Witness ==
    /\ pc = "done"
    /\ result # None
    /\ found # None
    /\ found[3] # result[3]
    /\ Len(faces[found[3]]) = Len(faces[result[3]])

\* C6: when every observation list is empty the estimator ends with a
\* defined result and raises no division-by-zero error.
C6_NoDivisionByZero ==
    (pc = "done" /\ \A r \in Rotations : Len(faces[r]) = 0) =>
        error # "ZeroDivisionError"

\* C7: whenever a result is returned, bucketX and bucketY are in {1, 2, 3}.
C7_BucketsInGrid ==
    (pc = "done" /\ result # None) =>
        /\ result[1] \in {1, 2, 3}
        /\ result[2] \in {1, 2, 3}

\* the 1-based index of the first of w/3, 2w/3, w that is >= v (0: none is)
FirstThreshold(v, w) ==
    IF 3 * v <= w THEN 1
    ELSE IF 3 * v <= 2 * w THEN 2
    ELSE IF v <= w THEN 3
    ELSE 0

RECURSIVE ThresholdSum(_, _, _, _)
ThresholdSum(observations, n, w, k) ==
    IF n = 0 THEN 0
    ELSE FirstThreshold(observations[n][k], w) + ThresholdSum(observations, n - 1, w, k)

\* r is an integer nearest to total / n
IsRoundedMean(r, total, n) ==
    /\ 2 * (n * r - total) <= n
    /\ 2 * (total - n * r) <= n

\* C8: the thresholds are [w/3, 2w/3, w] and [h/3, 2h/3, h] with (w, h) the
\* metadata (width, height) at rotation 0 or 180 and (height, width) at 90 or
\* 270; an observation's bucket is the 1-based index of the first threshold
\* >= its coordinate (0 when there is none), and the result is the rounded
\* mean of the buckets.  Observations all in the top-left third of a 300x300
\* frame at rotation 0 give (1, 1); at rotation 90 with 1920x1080 metadata the
\* x thresholds come from 1080 and the y thresholds from 1920.
C8_BucketThresholds ==
    (pc = "done" /\ result # None) =>
        LET rot == result[3]
            obs == faces[rot]
            n == Len(obs)
            w == IF rot \in {0, 180} THEN metadata.width ELSE metadata.height
            h == IF rot \in {0, 180} THEN metadata.height ELSE metadata.width
        IN  /\ n >= 1
            /\ IsRoundedMean(result[1], ThresholdSum(obs, n, w, 1), n)
            /\ IsRoundedMean(result[2], ThresholdSum(obs, n, h, 2), n)
            /\ (/\ rot = 0
                /\ metadata.width = 300
                /\ metadata.height = 300
                /\ \A j \in 1..n : obs[j][1] <= 100 /\ obs[j][2] <= 100)
               => (result[1] = 1 /\ result[2] = 1)
            /\ (/\ rot = 90
                /\ metadata.width = 1920
                /\ metadata.height = 1080
                /\ \A j \in 1..n : obs[j] = <<1000, 1500>>)
               => (result[1] = 3 /\ result[2] = 3)

C8_Witness ==
    /\ pc = "done"
    /\ metadata.width = 1920
    /\ metadata.height = 1080
    /\ Len(faces[90]) = 2
    /\ result = <<3, 3, 90>>

RECURSIVE CentreSum2(_, _, _)
CentreSum2(regions, n, k) ==
    IF n = 0 THEN 0
    ELSE 2 * regions[n][k] + regions[n][k + 2] + CentreSum2(regions, n - 1, k)

\* C9: on a hit the locator returns (round(meanX), round(meanY), rotation),
\* the means being over all faces detected at that rotation of x + w/2 and
\* y + h/2; one face (10, 20, 30, 40) at rotation 0 gives (25, 40, 0).
C9_AverageCentre ==
    (pc = "returned" /\ found # None) =>
        LET regions == image[found[3]]
            n == Len(regions)
        IN  /\ n >= 1
            /\ found[3] = tried[Len(tried)]
            /\ IsRoundedMean(found[1], CentreSum2(regions, n, 1), 2 * n)
            /\ IsRoundedMean(found[2], CentreSum2(regions, n, 2), 2 * n)
            /\ (found[3] = 0 /\ regions = << <<10, 20, 30, 40>> >>)
               => found = <<25, 40, 0>>

C9_Witness ==
    /\ pc = "returned"
    /\ image[0] = << <<10, 20, 30, 40>> >>
    /\ found = <<25, 40, 0>>

\* several faces in one frame: the centres (25, 40) and (26, 41) average to
\* (25.5, 40.5)
C9_WitnessTwoFaces ==
    /\ pc = "returned"
    /\ found # None
    /\ Len(image[found[3]]) = 2

\* the methods of Editor decorated with require_initialized("__clip")
GuardedOps == {"get_clip", "write_video", "cut", "rotate", "insert_img",
               "insert_video", "insert_clip"}

\* C10 as stated: on an Editor on which no load_video has completed, every
\* call of a guarded method raises RuntimeError and leaves the clip unset.
C10_UnloadedAlwaysRaises ==
    (e_op \in GuardedOps /\ ~e_loaded) =>
        (e_out = "RuntimeError" /\ e_clip = None)

\* C10 as amended: a call of a guarded method on an Editor whose clip is
\* unset raises RuntimeError before doing anything else and leaves the clip
\* unset; once load_video has assigned the clip (whether it then returned or
\* raised ValueError for want of metadata) every guarded call passes the
\* initialization check, and the clip stays set, in any order and any
\* number of times.
C10_InitializationGuard ==
    [][/\ e_loaded => e_clip # None
       /\ e_op' \in GuardedOps =>
             /\ e_clip = None =>
                   (e_out' = "RuntimeError" /\ e_clip' = None /\ e_path' = e_path)
             /\ e_clip # None =>
                   (e_out' # "RuntimeError" /\ e_clip' # None)]_vars

C10_Witness ==
    /\ e_op = "insert_clip"
    /\ e_out = "RuntimeError"
    /\ e_clip = None
    /\ ~e_loaded

\* a guarded call passing the check after a load_video that raised
C10_WitnessHalfLoaded ==
    /\ e_op = "rotate"
    /\ e_out = "ok"
    /\ e_clip # None
    /\ ~e_loaded

\* C11: insert_clip called on a loaded editor with time = None (its default)
\* appends the given clip to the end of the current video: the new clip is
\* the old clip followed by the inserted clip, and no error is raised.
C11_NoneTimeAppends ==
    [][(e_op' = "insert_clip" /\ e_args' = <<None>> /\ e_clip # None) =>
          /\ e_out' = "ok"
          /\ \E c \in InsertedClips : e_clip'[1] = e_clip[1] \o c[1]]_vars

\* C12 as stated: the seek to fps * frameCounter comes before the increment,
\* so the frames sampled are at indices 0, fps, 2*fps, 3*fps, ...
C12_SeekThenIncrement ==
    \A j \in 1..Len(sampled) : sampled[j] = metadata.fps * (j - 1)

\* C12 as amended: frames_counter starts at 1 and after each sampled frame
\* that does not trigger the early exit it is incremented first and the read
\* position is then set to fps * frames_counter; so the frames sampled are at
\* indices 0, 2*fps, 3*fps, ... (no seek goes to index fps * 1).
C12_IncrementThenSeek ==
    /\ \A j \in 1..Len(sampled) :
          sampled[j] = IF j = 1 THEN 0 ELSE metadata.fps * j
    /\ pc = "read" =>
          /\ frames_counter = Len(sampled) + 1
          /\ pos = IF sampled = <<>> THEN 0 ELSE metadata.fps * frames_counter
    /\ pc \in {"locate", "returned"} =>
          /\ frames_counter = Len(sampled)
          /\ pos = sampled[Len(sampled)] + 1

C12_Witness ==
    /\ metadata.fps = 1
    /\ sampled = <<0, 2, 3>>
    /\ pc = "done"

\* the first frame of the clip has no face at any rotation
FirstFrameFaceless ==
    /\ Len(clip) >= 1
    /\ \A r \in Rotations : Len(clip[1][r]) = 0

\* C13: with fps > 0 the sampling loop terminates on every clip and every
\* detector answer: an iteration that does not exit seeks to a frame index
\* strictly larger than that of the frame it has just read, so the read
\* eventually fails; with fps = 0 and a first frame without a face the loop
\* never exits.
C13_Termination ==
    /\ [][(metadata.fps > 0 /\ pc = "returned" /\ pc' = "read") =>
             pos' > sampled[Len(sampled)]]_vars
    /\ (metadata.fps > 0) => <>(pc = "done")
    /\ []((metadata.fps = 0 /\ FirstFrameFaceless) =>
             /\ pc \in {"read", "locate", "returned"}
             /\ \A j \in 1..Len(sampled) : sampled[j] = 0)

\* the loop ended by a failed read, after three sampled frames
C13_Witness ==
    /\ metadata.fps = 1
    /\ pc = "done"
    /\ Len(sampled) = 3
    /\ \A r \in Rotations : Len(faces[r]) < 3

\* fps = 0: the faceless first frame is read again and again
C13_WitnessLoop ==
    /\ metadata.fps = 0
    /\ FirstFrameFaceless
    /\ Len(sampled) >= 4
    /\ pc = "read"

\* C14: the angle at which a frame's search starts is 0 for the first frame
\* and afterwards the rotation returned by the most recent frame with a
\* detection (a frame without one leaves it as it was); it is always one of
\* 0, 90, 180, 270, so the generator is never built from another angle.
C14_StartAngle ==
    /\ [](rotation \in Rotations)
    /\ []((pc \in {"read", "locate", "returned"} /\ \A r \in Rotations : faces[r] = <<>>) =>
             rotation = 0)
    /\ []((pc = "locate" \/ (pc = "returned" /\ sampled # <<>>)) =>
             /\ gen.rotates[1] = rotation
             /\ tried # <<>> => tried[1] = rotation)
    /\ [][(pc = "returned" /\ pc' # "returned") =>
             rotation' = IF found # None THEN found[3] ELSE rotation]_vars
    /\ [][(pc \in {"read", "locate"}) => rotation' = rotation]_vars

\* a frame without a detection, read after a frame detected at 270, has left
\* the start angle at 270 for the third sampled frame
C14_Witness ==
    /\ pc = "locate"
    /\ Len(sampled) = 3
    /\ \A r \in Rotations : Len(clip[sampled[2] + 1][r]) = 0
    /\ Len(faces[270]) = 1
    /\ rotation = 270
    /\ tried = <<270>>

\* The estimator with one change, used to state C15: every frame's search
\* starts at angle 0 whatever the earlier frames returned.
RECURSIVE FromZeroLocate(_, _)
FromZeroLocate(img, g) ==
    IF GenExhausted(g) THEN None
    ELSE IF Len(Detect(img, GenNext(g))) = 0
         THEN FromZeroLocate(img, GenAdvance(g))
         ELSE AveragePosition(Detect(img, GenNext(g)), GenNext(g))

\* <<faces, rotation, finished>> when the sampling loop of that estimator is
\* left, followed as far as the counter bound like the loop itself
RECURSIVE FromZeroRun(_, _, _, _)
FromZeroRun(fs, rot, p, counter) ==
    IF p >= Len(clip) THEN <<fs, rot, TRUE>>
    ELSE IF counter >= MaxCounter THEN <<fs, rot, FALSE>>
    ELSE LET f == FromZeroLocate(clip[p + 1], RotationGenerator(0))
             fs2 == [fs EXCEPT ![f[3]] = Append(@, <<f[1], f[2]>>)]
         IN  IF f = None
             THEN FromZeroRun(fs, rot, SeekTarget(metadata.fps, counter + 1), counter + 1)
             ELSE IF Confident(fs2[f[3]])
                  THEN <<fs2, f[3], TRUE>>
                  ELSE FromZeroRun(fs2, f[3], SeekTarget(metadata.fps, counter + 1),
                                   counter + 1)

\* <<result, error>> of that estimator on the clip
FromZeroOutcome ==
    LET run == FromZeroRun([r \in Rotations |-> <<>>], 0, 0, 1)
        rot == PickRotation(run[1], FacesKeys, 0, run[2])
    IN  IF ~run[3] THEN <<None, "unfinished">>
        ELSE IF Len(run[1][rot]) = 0 THEN <<None, "ZeroDivisionError">>
        ELSE <<AverageBuckets(run[1][rot], ClipSize(rot, metadata), rot), "">>

\* C15 as stated: for every clip and detector behaviour, frames with faces at
\* more than one rotation included, the estimator ends with the result of the
\* estimator that starts every frame's search at angle 0.
C15_SameAsFromZero ==
    pc = "done" => <<result, error>> = FromZeroOutcome

\* the detector reports faces at no more than one rotation of each sampled frame
SingleRotationFrames ==
    \A j \in 1..Len(sampled) :
        Cardinality({r \in Rotations : clip[sampled[j] + 1][r] # <<>>}) <= 1

\* C15 as amended: when no sampled frame has faces at more than one rotation,
\* the estimator ends with the result of the estimator that starts every
\* frame's search at angle 0.
C15_SameAsFromZeroSingleRotation ==
    (pc = "done" /\ SingleRotationFrames) => <<result, error>> = FromZeroOutcome

\* a run over single-rotation frames whose last search started at the carried
\* angle 270 and ended at angle 0
C15_Witness ==
    /\ pc = "done"
    /\ SingleRotationFrames
    /\ error = ""
    /\ tried = <<270, 180, 0>>
    /\ Len(faces[270]) = 1

====
